---- MODULE Spec2Model ----
(***************************************************************************)
(* A model of kirby-core's robots.txt interpreter (robotstxt.rs):          *)
(* RobotsTxt::parse, RobotsTxt::is_allowed, find_matching_agent,           *)
(* RobotsTxtRule::is_allowed, strip_prefix and match_pattern.              *)
(*                                                                         *)
(* A &str is a sequence of characters (Rust `char`s).  An ASCII character  *)
(* is written as a one-character string; a non-ASCII character is written  *)
(* as its code point ("U+00E9") and has the UTF-8 width len_utf8 gives it. *)
(* str::len() and str slicing count BYTES, str::chars() counts characters: *)
(* the model keeps the two apart.                                          *)
(***************************************************************************)
EXTENDS Integers, Sequences, FiniteSets, TLC

VARIABLES
    doc,            \* the lines the input text was written from (input structure)
    file,           \* parse's argument: the raw text
    pc,             \* "start", "parsed", "panicked", "answered", "match", "matched"
    rules,          \* RobotsTxt.rules: agent-pattern -> [allow, disallow]
    sitemaps,       \* RobotsTxt.sitemaps
    agents_ordered, \* RobotsTxt.agents_ordered
    queries,        \* the (user_agent, path) pairs a caller may ask about
    user_agent,     \* is_allowed's first argument
    path,           \* is_allowed's second argument
    matched_agent,  \* what find_matching_agent returned for user_agent
    allowed,        \* what is_allowed returned
    pattern,        \* match_pattern's first argument
    string,         \* match_pattern's second argument
    matches         \* what match_pattern returned

vars == <<doc, file, pc, rules, sitemaps, agents_ordered, queries, user_agent, path,
          matched_agent, allowed, pattern, string, matches>>

-----------------------------------------------------------------------------
(* Bounds of the model. *)

MaxPatLen == 4
MaxStrLen == 4
MaxParseLines == 3
MaxCaseLines == 3
MaxContextLines == 4
MaxPathLines == 3
MaxAgentLines == 4

-----------------------------------------------------------------------------
(* Characters and strings. *)

\* Two non-ASCII characters: U+00E9 is 2 bytes in UTF-8, U+20AC is 3.
EAcute == "U+00E9"
Euro == "U+20AC"

len_utf8(c) == CASE c = EAcute -> 2 [] c = Euro -> 3 [] OTHER -> 1

UpperCase == <<"A", "B", "C", "D", "E", "F", "G", "H", "I", "J", "K", "L", "M",
               "N", "O", "P", "Q", "R", "S", "T", "U", "V", "W", "X", "Y", "Z">>
LowerCase == <<"a", "b", "c", "d", "e", "f", "g", "h", "i", "j", "k", "l", "m",
               "n", "o", "p", "q", "r", "s", "t", "u", "v", "w", "x", "y", "z">>

\* u8::to_ascii_lowercase, as a table from 'A'..'Z'.
AsciiLower ==
    [c \in {UpperCase[i] : i \in DOMAIN UpperCase} |->
        LowerCase[CHOOSE i \in DOMAIN UpperCase : UpperCase[i] = c]]

to_ascii_lowercase(c) == IF c \in DOMAIN AsciiLower THEN AsciiLower[c] ELSE c

\* char::is_whitespace, on the white space the inputs use.
is_whitespace(c) == c \in {" ", "\t", "\r", "\n"}

\* The bytes of the first k characters of s.
RECURSIVE bytes_upto(_, _)
bytes_upto(s, k) == IF k = 0 THEN 0 ELSE len_utf8(s[k]) + bytes_upto(s, k - 1)

\* str::len(): the length in bytes.
len(s) == bytes_upto(s, Len(s))

\* The number of characters in the first n bytes of s, counted from the k
\* characters that make the first b bytes; -1 when byte n is inside a character.
RECURSIVE chars_in_from(_, _, _, _)
chars_in_from(s, n, k, b) ==
    IF b = n THEN k
    ELSE IF b > n \/ k = Len(s) THEN -1
    ELSE chars_in_from(s, n, k + 1, b + len_utf8(s[k + 1]))

chars_in(s, n) == chars_in_from(s, n, 0, 0)

\* str::is_char_boundary(n): byte offset n is where a character starts or ends.
is_char_boundary(s, n) == chars_in(s, n) >= 0

starts_with(s, p) == Len(p) <= Len(s) /\ SubSeq(s, 1, Len(p)) = p

contains(s, c) == \E i \in DOMAIN s : s[i] = c

\* The first index from i on, and the last index up to i, that holds no white
\* space (Len(s) + 1 and 0 when there is none).
RECURSIVE trim_start_at(_, _)
trim_start_at(s, i) ==
    IF i <= Len(s) /\ is_whitespace(s[i]) THEN trim_start_at(s, i + 1) ELSE i

RECURSIVE trim_end_at(_, _)
trim_end_at(s, i) ==
    IF i >= 1 /\ is_whitespace(s[i]) THEN trim_end_at(s, i - 1) ELSE i

\* str::trim(): without the white space at either end.
trim(s) == SubSeq(s, trim_start_at(s, 1), trim_end_at(s, Len(s)))

\* A comparison that minds the letter case.
eq_ignore_ascii_case_exact(a, b) == a = b

\* str::eq_ignore_ascii_case: equal once ASCII letters are lower-cased.
eq_ignore_ascii_case(a, b) ==
    /\ Len(a) = Len(b)
    /\ \A i \in DOMAIN a : to_ascii_lowercase(a[i]) = to_ascii_lowercase(b[i])

None == [tag |-> "None"]
Some(v) == [tag |-> "Some", val |-> v]
Panic == [tag |-> "Panic"]

-----------------------------------------------------------------------------
(* strip_prefix (robotstxt.rs 154-164).  s[..n] and s[n..] panic when byte  *)
(* n is not a char boundary of s.                                          *)

strip_prefix(s, prefix) ==
    LET n == len(prefix)
        k == chars_in(s, n)
    IN  IF len(s) < n THEN None
        ELSE IF ~is_char_boundary(s, n) THEN Panic
        ELSE IF eq_ignore_ascii_case(SubSeq(s, 1, k), prefix)
             THEN Some(SubSeq(s, k + 1, Len(s)))
        ELSE None

-----------------------------------------------------------------------------
(* match_pattern (robotstxt.rs 168-187). *)

\* A matcher that stops when the pattern is used up, the candidate or not.
RECURSIVE match_recursive_prefix(_, _)
match_recursive_prefix(p, s) ==
    IF p = <<>> THEN TRUE
    ELSE IF Head(p) = "*"
         THEN \/ match_recursive_prefix(Tail(p), s)
              \/ (s # <<>> /\ match_recursive_prefix(p, Tail(s)))
    ELSE IF s # <<>> /\ Head(p) = Head(s)
         THEN match_recursive_prefix(Tail(p), Tail(s))
    ELSE FALSE

\* match_recursive (173-182), on the characters of pattern and candidate.
RECURSIVE match_recursive(_, _)
match_recursive(p, s) ==
    IF p = <<>> /\ s = <<>> THEN TRUE
    ELSE IF p # <<>> /\ Head(p) = "*"
         THEN \/ match_recursive(Tail(p), s)
              \/ (s # <<>> /\ match_recursive(p, Tail(s)))
    ELSE IF p # <<>> /\ s # <<>> /\ Head(p) = Head(s)
         THEN match_recursive(Tail(p), Tail(s))
    ELSE FALSE

match_pattern(p, s) ==
    IF ~contains(p, "*") /\ starts_with(s, p) THEN TRUE
    ELSE match_recursive(p, s)

-----------------------------------------------------------------------------
(* RobotsTxt::parse (robotstxt.rs 40-104). *)

KwUserAgent == <<"u", "s", "e", "r", "-", "a", "g", "e", "n", "t", ":", " ">>
KwAllow == <<"a", "l", "l", "o", "w", ":", " ">>
KwDisallow == <<"d", "i", "s", "a", "l", "l", "o", "w", ":", " ">>
KwSitemap == <<"s", "i", "t", "e", "m", "a", "p", ":", " ">>

\* str::lines(): split at "\n"; a "\r" right before the "\n" goes with it; no
\* empty last line after a final "\n".
RECURSIVE lines(_)
lines(f) ==
    IF f = <<>> THEN <<>>
    ELSE IF ~contains(f, "\n") THEN <<f>>
    ELSE LET nls == {i \in DOMAIN f : f[i] = "\n"}
             nl == CHOOSE i \in nls : \A j \in nls : i <= j
             l == SubSeq(f, 1, nl - 1)
             first == IF l # <<>> /\ l[Len(l)] = "\r"
                      THEN SubSeq(l, 1, Len(l) - 1) ELSE l
         IN  <<first>> \o lines(SubSeq(f, nl + 1, Len(f)))

\* RobotsTxtRule::default().
DefaultRule == [allow |-> <<>>, disallow |-> <<>>]

\* HashMap::new().
EmptyRules == [a \in {} |-> DefaultRule]

\* rules.insert(agent, fresh rule): what the entry API is there to avoid.
push_rule_overwrite(rs, agent, field, v) ==
    LET new == IF field = "allow"
               THEN [DefaultRule EXCEPT !.allow = Append(@, v)]
               ELSE [DefaultRule EXCEPT !.disallow = Append(@, v)]
    IN  [a \in DOMAIN rs \cup {agent} |-> IF a = agent THEN new ELSE rs[a]]

\* rules.entry(agent).or_insert(Default::default()).<field>.push(v)
push_rule(rs, agent, field, v) ==
    LET old == IF agent \in DOMAIN rs THEN rs[agent] ELSE DefaultRule
        new == IF field = "allow"
               THEN [old EXCEPT !.allow = Append(@, v)]
               ELSE [old EXCEPT !.disallow = Append(@, v)]
    IN  [a \in DOMAIN rs \cup {agent} |-> IF a = agent THEN new ELSE rs[a]]

\* The locals of parse before its loop (41-43).
ScanStart ==
    [current_agent |-> None, rules |-> EmptyRules, sitemaps |-> <<>>,
     panicked |-> FALSE]

\* The Allow / Disallow arm (54-65, 67-78): dropped without a current agent
\* or with an empty value.
record_rule(st, field, rest) ==
    IF st.current_agent.tag = "Some" /\ trim(rest) # <<>>
    THEN [st EXCEPT !.rules = push_rule(@, st.current_agent.val, field, trim(rest))]
    ELSE st

\* A Sitemap arm that, like Allow and Disallow, needs a current agent.
record_sitemap_in_block(st, rest) ==
    IF st.current_agent.tag = "Some" /\ trim(rest) # <<>>
    THEN [st EXCEPT !.sitemaps = Append(@, trim(rest))]
    ELSE st

\* The Sitemap arm (79-86).
record_sitemap(st, rest) ==
    IF trim(rest) # <<>>
    THEN [st EXCEPT !.sitemaps = Append(@, trim(rest))]
    ELSE st

\* One pass of the loop body (46-86) over a line of the file.
scan_line(st, raw) ==
    LET line == trim(raw)
    IN  IF line = <<>> \/ starts_with(line, <<"#">>) THEN st
        ELSE LET ua == strip_prefix(line, KwUserAgent)
             IN  IF ua.tag = "Panic" THEN [st EXCEPT !.panicked = TRUE]
                 ELSE IF ua.tag = "Some"
                      THEN [st EXCEPT !.current_agent = Some(trim(ua.val))]
                 ELSE
        LET al == strip_prefix(line, KwAllow)
        IN  IF al.tag = "Panic" THEN [st EXCEPT !.panicked = TRUE]
            ELSE IF al.tag = "Some" THEN record_rule(st, "allow", al.val)
            ELSE
        LET dis == strip_prefix(line, KwDisallow)
        IN  IF dis.tag = "Panic" THEN [st EXCEPT !.panicked = TRUE]
            ELSE IF dis.tag = "Some" THEN record_rule(st, "disallow", dis.val)
            ELSE
        LET sm == strip_prefix(line, KwSitemap)
        IN  IF sm.tag = "Panic" THEN [st EXCEPT !.panicked = TRUE]
            ELSE IF sm.tag = "Some" THEN record_sitemap(st, sm.val)
            ELSE st

\* The loop (45-87); a panic unwinds out of parse.
RECURSIVE scan(_, _)
scan(st, ls) ==
    IF ls = <<>> \/ st.panicked THEN st
    ELSE scan(scan_line(st, Head(ls)), Tail(ls))

\* slice::sort_by(|a, b| b.len().cmp(&a.len())): stable, longest first.  Each
\* element goes behind everything at least as long as it.
insert_by_len(sorted, x) ==
    LET shorter == {i \in DOMAIN sorted : len(sorted[i]) < len(x)}
        at == IF shorter = {} THEN Len(sorted) + 1
              ELSE CHOOSE i \in shorter : \A j \in shorter : i <= j
    IN  SubSeq(sorted, 1, at - 1) \o <<x>> \o SubSeq(sorted, at, Len(sorted))

\* No sort at all.
sort_by_len_skipped(s) == s

\* A sort that puts an element before the ones of its own length
\* (sort_unstable_by may).
RECURSIVE sort_by_len_unstable(_)
sort_by_len_unstable(s) ==
    IF s = <<>> THEN <<>>
    ELSE LET sorted == sort_by_len_unstable(SubSeq(s, 1, Len(s) - 1))
             x == s[Len(s)]
             notlonger == {i \in DOMAIN sorted : len(sorted[i]) <= len(x)}
             at == IF notlonger = {} THEN Len(sorted) + 1
                   ELSE CHOOSE i \in notlonger : \A j \in notlonger : i <= j
         IN  SubSeq(sorted, 1, at - 1) \o <<x>> \o SubSeq(sorted, at, Len(sorted))

RECURSIVE sort_by_len(_)
sort_by_len(s) ==
    IF s = <<>> THEN <<>>
    ELSE insert_by_len(sort_by_len(SubSeq(s, 1, Len(s) - 1)), s[Len(s)])

\* The orders rules.keys() may enumerate a key set in: std's HashMap is seeded
\* per map (RandomState), any order of the keys is possible.
key_orders(keys) ==
    {o \in [1..Cardinality(keys) -> keys] :
        \A i, j \in 1..Cardinality(keys) : o[i] = o[j] => i = j}

\* The agent indexes parse may build from a rule map (90-91).
agent_indexes(rs) == {sort_by_len(o) : o \in key_orders(DOMAIN rs)}

\* The rule map parse returns (94-97).
sort_rules(rs) ==
    [a \in DOMAIN rs |-> [allow |-> sort_by_len(rs[a].allow),
                          disallow |-> sort_by_len(rs[a].disallow)]]

\* What parse does with a file, up to the order of the agent index: a panic,
\* or the rule map and the sitemap list of the RobotsTxt it returns.
parse(f) ==
    LET st == scan(ScanStart, lines(f))
    IN  IF st.panicked THEN [panicked |-> TRUE]
        ELSE [panicked |-> FALSE, rules |-> sort_rules(st.rules),
              sitemaps |-> st.sitemaps]

-----------------------------------------------------------------------------
(* The matcher (robotstxt.rs 106-150). *)

\* slice.iter().find(|p| match_pattern(p, s))
find_first(ps, s) ==
    LET hits == {i \in DOMAIN ps : match_pattern(ps[i], s)}
    IN  IF hits = {} THEN None
        ELSE Some(ps[CHOOSE i \in hits : \A j \in hits : i <= j])

\* The tie going to allow: >= where the code has >.
rule_is_allowed_tie_allows(rule, p) ==
    LET best_allow == find_first(rule.allow, p)
        best_disallow == find_first(rule.disallow, p)
    IN  IF best_allow.tag = "Some" /\ best_disallow.tag = "None" THEN TRUE
        ELSE IF best_allow.tag = "None" /\ best_disallow.tag = "Some" THEN FALSE
        ELSE IF best_allow.tag = "Some" /\ best_disallow.tag = "Some"
             THEN len(best_allow.val) >= len(best_disallow.val)
        ELSE TRUE

\* RobotsTxtRule::is_allowed (141-150).
rule_is_allowed(rule, p) ==
    LET best_allow == find_first(rule.allow, p)
        best_disallow == find_first(rule.disallow, p)
    IN  IF best_allow.tag = "Some" /\ best_disallow.tag = "None" THEN TRUE
        ELSE IF best_allow.tag = "None" /\ best_disallow.tag = "Some" THEN FALSE
        ELSE IF best_allow.tag = "Some" /\ best_disallow.tag = "Some"
             THEN len(best_allow.val) > len(best_disallow.val)
        ELSE TRUE

\* RobotsTxt::find_matching_agent (114-119) over an agent index.
find_matching_agent(index, ua) == find_first(index, ua)

\* An unmatched user-agent treated as restricted.
is_allowed_default_deny(rs, index, ua, p) ==
    LET found == find_matching_agent(index, ua)
    IN  IF found.tag = "None" THEN FALSE
        ELSE rule_is_allowed(rs[found.val], p)

\* RobotsTxt::is_allowed (106-112) with get_agent_rules (121-127) inlined.
is_allowed(rs, index, ua, p) ==
    LET found == find_matching_agent(index, ua)
    IN  IF found.tag = "None" THEN TRUE
        ELSE rule_is_allowed(rs[found.val], p)

-----------------------------------------------------------------------------
(* The input texts.  A text is written line by line; a line is leading      *)
(* white space, a head (a directive keyword with its ": ", or anything      *)
(* else), white space, a value without white space at its ends, and         *)
(* trailing white space.                                                    *)

Ln(head, value) ==
    [lead |-> <<>>, head |-> head, gap |-> <<>>, value |-> value, trail |-> <<>>]

LnWs(lead, head, gap, value, trail) ==
    [lead |-> lead, head |-> head, gap |-> gap, value |-> value, trail |-> trail]

HdUserAgent == <<"U", "s", "e", "r", "-", "a", "g", "e", "n", "t", ":", " ">>
HdAllow == <<"A", "l", "l", "o", "w", ":", " ">>
HdDisallow == <<"D", "i", "s", "a", "l", "l", "o", "w", ":", " ">>
HdSitemap == <<"S", "i", "t", "e", "m", "a", "p", ":", " ">>
HdAllowNoSpace == <<"A", "l", "l", "o", "w", ":">>
HdUserAgentNoSpace == <<"U", "s", "e", "r", "-", "a", "g", "e", "n", "t", ":">>

render_line(l) == l.lead \o l.head \o l.gap \o l.value \o l.trail

RECURSIVE render(_)
render(d) ==
    IF d = <<>> THEN <<>>
    ELSE IF Len(d) = 1 THEN render_line(d[1])
    ELSE render_line(d[1]) \o <<"\n">> \o render(Tail(d))

SeqsUpTo(S, n) == UNION {[1..k -> S] : k \in 0..n}

\* Malformed and well-formed lines, as in tests::parse_badly_formatted_robotstxt,
\* with non-ASCII characters, CRLF line ends and stray white space.
ParseLines ==
    { Ln(HdUserAgent, <<"K", "b">>),
      LnWs(<<"\t">>, <<"A", "L", "L", "O", "W", ":", " ">>, <<" ">>,
           <<"/", "A", "b">>, <<" ", "\r">>),
      Ln(<<"D", "i", "s", "A", "L", "L", "o", "w", ":", " ">>, <<"/", EAcute>>),
      Ln(HdAllow, <<"/", Euro>>),
      Ln(<<"s", "i", "t", "e", "m", "a", "p", ":", " ">>, <<"s", "1">>),
      Ln(HdSitemap, <<>>),
      Ln(HdUserAgentNoSpace, <<>>),
      Ln(<<"#">>, <<"c">>),
      LnWs(<<" ">>, <<>>, <<>>, <<>>, <<"\r">>),
      Ln(HdAllowNoSpace, <<"/", "x">>) }

CaseLines ==
    { Ln(HdUserAgent, <<"K", "b">>),
      Ln(HdAllow, <<"/", "A", "b">>),
      Ln(<<"D", "i", "s", "A", "L", "L", "o", "w", ":", " ">>, <<"/", "a", "b">>),
      Ln(HdSitemap, <<"S", "1">>),
      Ln(HdDisallow, <<"/", EAcute>>),
      Ln(<<>>, <<"A", "l", "l", "o", "w", "e", "d">>) }

ContextLines ==
    { Ln(HdUserAgent, <<"a">>),
      Ln(HdUserAgent, <<"b", "b">>),
      Ln(HdAllow, <<"/", "a">>),
      Ln(HdDisallow, <<"/", "b">>),
      Ln(HdSitemap, <<"s">>),
      Ln(HdUserAgentNoSpace, <<>>) }

PathPatterns == {<<"/">>, <<"/", "a">>, <<"/", "*">>, <<"/", "*", "a">>}

PathLines ==
    {Ln(HdAllow, v) : v \in PathPatterns} \cup {Ln(HdDisallow, v) : v \in PathPatterns}

PathQueries ==
    {<<"/">>, <<"/", "a">>, <<"/", "b">>, <<"/", "a", "a">>, <<"/", "b", "a">>}

AgentPatterns == {<<"*">>, <<"k", "*">>, <<"*", "b">>, <<"k", "b", "*">>}

AgentLines ==
    {Ln(HdUserAgent, v) : v \in AgentPatterns}
        \cup {Ln(HdAllow, <<"/">>), Ln(HdDisallow, <<"/">>)}

AgentQueries == {<<"k", "b">>, <<"k">>, <<"k", "b", "/", "1">>, <<"x">>}

MatchPatterns == SeqsUpTo({"a", "/", "*"}, MaxPatLen)
MatchStrings == SeqsUpTo({"a", "/", "*"}, MaxStrLen)

-----------------------------------------------------------------------------
(* The state machine: a text is parsed, then queried. *)

InitWith(docs, endings, uas, paths) ==
    /\ doc \in docs
    /\ file \in {render(doc) \o e : e \in endings}
    /\ pc = "start"
    /\ rules = EmptyRules
    /\ sitemaps = <<>>
    /\ agents_ordered = <<>>
    /\ queries = uas \X paths
    /\ user_agent = <<>>
    /\ path = <<>>
    /\ matched_agent = None
    /\ allowed = TRUE
    /\ pattern = <<>>
    /\ string = <<>>
    /\ matches = FALSE

\* RobotsTxt::parse(file): a panic, or a RobotsTxt whose agent index is one
\* of those the key order of the rule map allows.
Parse ==
    /\ pc = "start"
    /\ \E out \in {parse(file)} :
           IF out.panicked
           THEN /\ pc' = "panicked"
                /\ UNCHANGED <<rules, sitemaps, agents_ordered>>
           ELSE /\ pc' = "parsed"
                /\ rules' = out.rules
                /\ sitemaps' = out.sitemaps
                /\ agents_ordered' \in agent_indexes(out.rules)
    /\ UNCHANGED <<doc, file, queries, user_agent, path, matched_agent, allowed,
                   pattern, string, matches>>

\* robotstxt.is_allowed(user_agent, path) on the parsed RobotsTxt.
Query ==
    /\ pc = "parsed"
    /\ pc' = "answered"
    /\ \E q \in queries :
           /\ user_agent' = q[1]
           /\ path' = q[2]
           /\ matched_agent' = find_matching_agent(agents_ordered, q[1])
           /\ allowed' = is_allowed(rules, agents_ordered, q[1], q[2])
    /\ UNCHANGED <<doc, file, rules, sitemaps, agents_ordered, queries,
                   pattern, string, matches>>

\* match_pattern(pattern, string).
MatchPattern ==
    /\ pc = "match"
    /\ pc' = "matched"
    /\ matches' = match_pattern(pattern, string)
    /\ UNCHANGED <<doc, file, rules, sitemaps, agents_ordered, queries, user_agent,
                   path, matched_agent, allowed, pattern, string>>

InitParse == InitWith(SeqsUpTo(ParseLines, MaxParseLines), {<<>>, <<"\n">>}, {}, {})
InitCase == InitWith(SeqsUpTo(CaseLines, MaxCaseLines), {<<"\n">>}, {}, {})
InitContext ==
    InitWith({<<Ln(HdUserAgent, <<"a">>)>> \o d : d \in SeqsUpTo(ContextLines, MaxContextLines)},
             {<<"\n">>}, {}, {})
InitPath ==
    InitWith({<<Ln(HdUserAgent, <<"*">>)>> \o d : d \in SeqsUpTo(PathLines, MaxPathLines)},
             {<<"\n">>}, {<<"x">>}, PathQueries)
InitAgent ==
    InitWith(SeqsUpTo(AgentLines, MaxAgentLines), {<<"\n">>}, AgentQueries, {<<"/">>})

InitMatch ==
    /\ pattern \in MatchPatterns
    /\ string \in MatchStrings
    /\ pc = "match"
    /\ matches = FALSE
    /\ doc = <<>>
    /\ file = <<>>
    /\ rules = EmptyRules
    /\ sitemaps = <<>>
    /\ agents_ordered = <<>>
    /\ queries = {}
    /\ user_agent = <<>>
    /\ path = <<>>
    /\ matched_agent = None
    /\ allowed = TRUE

NextParse == Parse
NextQuery == Parse \/ Query
NextMatch == MatchPattern

SpecParse == InitParse /\ [][NextParse]_vars
SpecCase == InitCase /\ [][NextParse]_vars
SpecContext == InitContext /\ [][NextParse]_vars
SpecPath == InitPath /\ [][NextQuery]_vars
SpecAgent == InitAgent /\ [][NextQuery]_vars
SpecMatch == InitMatch /\ [][NextMatch]_vars

\* Everything at once: a text parsed and queried, or a pattern matched.
Init == InitParse \/ InitCase \/ InitContext \/ InitPath \/ InitAgent \/ InitMatch
Next == Parse \/ Query \/ MatchPattern
Spec == Init /\ [][Next]_vars

-----------------------------------------------------------------------------
(* What a text says, read off the lines it was written from. *)

Folded(h) == [i \in DOMAIN h |-> to_ascii_lowercase(h[i])]

\* The directive a line is: a keyword in any letter case, ": ", and a value.
Kind(l) ==
    LET kw == Folded(l.head)
    IN  IF l.value = <<>> THEN "none"
        ELSE IF kw = KwUserAgent THEN "user-agent"
        ELSE IF kw = KwAllow THEN "allow"
        ELSE IF kw = KwDisallow THEN "disallow"
        ELSE IF kw = KwSitemap THEN "sitemap"
        ELSE "none"

\* The value of the last User-agent line before line i.
Governing(d, i) ==
    LET before == {j \in 1..(i - 1) : Kind(d[j]) = "user-agent"}
    IN  IF before = {} THEN None
        ELSE Some(d[CHOOSE j \in before : \A k \in before : k <= j].value)

\* The values of the Allow (Disallow) lines of the first n lines that agent a
\* governs, in text order.
RECURSIVE Recorded(_, _, _, _)
Recorded(d, n, a, field) ==
    IF n = 0 THEN <<>>
    ELSE IF Kind(d[n]) = field /\ Governing(d, n) = Some(a)
         THEN Append(Recorded(d, n - 1, a, field), d[n].value)
    ELSE Recorded(d, n - 1, a, field)

\* The agents that govern an Allow or Disallow line.
Governors(d) ==
    {d[j].value : j \in {k \in DOMAIN d : /\ Kind(d[k]) = "user-agent"
                                          /\ \E i \in DOMAIN d :
                                                /\ Kind(d[i]) \in {"allow", "disallow"}
                                                /\ Governing(d, i) = Some(d[k].value)}}

\* The values of the Sitemap lines of the first n lines, in text order.
RECURSIVE SitemapValues(_, _)
SitemapValues(d, n) ==
    IF n = 0 THEN <<>>
    ELSE IF Kind(d[n]) = "sitemap" THEN Append(SitemapValues(d, n - 1), d[n].value)
    ELSE SitemapValues(d, n - 1)

Count(seq, v) == Cardinality({i \in DOMAIN seq : seq[i] = v})

OfLen(seq, n) == SelectSeq(seq, LAMBDA x : len(x) = n)

Parsed == pc \in {"parsed", "answered"}

-----------------------------------------------------------------------------
(* C1: parse is total: whatever the text, it returns a RobotsTxt and never  *)
(* panics.                                                                  *)

C1_ParseIsTotal == pc # "panicked"

-----------------------------------------------------------------------------
(* C5: match_pattern agrees with its reference definition: a pattern        *)
(* without "*" matches the candidates that start with it; a pattern with    *)
(* "*" matches the candidates it equals once each "*" is replaced by some   *)
(* string, the whole candidate and not a prefix of it.                      *)

\* s is p with each "*" replaced by some string.
RECURSIVE Fills(_, _)
Fills(p, s) ==
    IF ~contains(p, "*") THEN p = s
    ELSE LET stars == {i \in DOMAIN p : p[i] = "*"}
             star == CHOOSE i \in stars : \A j \in stars : i <= j
             pre == SubSeq(p, 1, star - 1)
             post == SubSeq(p, star + 1, Len(p))
         IN  /\ Len(pre) <= Len(s)
             /\ SubSeq(s, 1, Len(pre)) = pre
             /\ \E k \in Len(pre)..Len(s) : Fills(post, SubSeq(s, k + 1, Len(s)))

C5_Reference(p, s) ==
    IF ~contains(p, "*")
    THEN \E k \in 0..Len(s) : SubSeq(s, 1, k) = p
    ELSE Fills(p, s)

\* C5: match_pattern returns what the reference definition gives, for every
\* pattern and candidate.
C5_MatchPatternAgrees ==
    pc = "matched" => matches = C5_Reference(pattern, string)

\* "/*/" does not match "/a": only the prefix "/" could be matched.
C5_Witness ==
    /\ pc = "matched"
    /\ pattern = <<"/", "*", "/">>
    /\ string = <<"/", "a">>
    /\ ~matches

-----------------------------------------------------------------------------
(* C2: longest match wins and disallow wins ties: for every parsed agent    *)
(* block and every path, RobotsTxtRule::is_allowed is false exactly when    *)
(* some disallow pattern matches and the longest matching disallow pattern  *)
(* is at least as long as the longest matching allow pattern.               *)

\* The length of the longest pattern of ps that matches p; -1 when none does.
C2_Longest(ps, p) ==
    LET lens == {len(ps[i]) : i \in {j \in DOMAIN ps : match_pattern(ps[j], p)}}
    IN  IF lens = {} THEN -1 ELSE CHOOSE n \in lens : \A m \in lens : m <= n

C2_Disallowed(rule, p) ==
    /\ C2_Longest(rule.disallow, p) >= 0
    /\ C2_Longest(rule.disallow, p) >= C2_Longest(rule.allow, p)

\* C2: every block's is_allowed(path) is false exactly when a disallow pattern
\* matches and the longest one is at least as long as the longest matching
\* allow pattern; so is the answer of RobotsTxt::is_allowed for its block.
C2_LongestMatchWins ==
    pc = "answered" =>
        /\ \A a \in DOMAIN rules :
               rule_is_allowed(rules[a], path) = ~C2_Disallowed(rules[a], path)
        /\ matched_agent.tag = "Some" =>
               allowed = ~C2_Disallowed(rules[matched_agent.val], path)

\* A tie: "/a" allowed and "/*" disallowed both match "/a", with the shorter
\* "/" also allowed and listed first in the text.
C2_Witness ==
    /\ pc = "answered"
    /\ path = <<"/", "a">>
    /\ matched_agent.tag = "Some"
    /\ rules[matched_agent.val].allow = <<<<"/", "a">>, <<"/">>>>
    /\ rules[matched_agent.val].disallow = <<<<"/", "*">>>>
    /\ doc[2].value = <<"/">>
    /\ ~allowed

-----------------------------------------------------------------------------
(* C3: an unmatched user-agent is ungoverned: when no agent-pattern of the  *)
(* rule set matches user_agent, is_allowed returns true whatever the other  *)
(* blocks disallow.                                                         *)

C3_UnmatchedAgentAllowed ==
    (pc = "answered" /\ \A a \in DOMAIN rules : ~match_pattern(a, user_agent))
        => allowed

\* "x" is asked about "/" while every block of the rule set disallows "/".
C3_Witness ==
    /\ pc = "answered"
    /\ DOMAIN rules # {}
    /\ \A a \in DOMAIN rules :
           /\ ~match_pattern(a, user_agent)
           /\ \E i \in DOMAIN rules[a].disallow :
                  match_pattern(rules[a].disallow[i], path)
    /\ allowed

-----------------------------------------------------------------------------
(* C4: agent resolution picks the most specific block: find_matching_agent  *)
(* returns None iff no recorded agent-pattern matches user_agent, and       *)
(* otherwise a matching agent-pattern of maximal length; the agent index    *)
(* lists every recorded agent-pattern once, longest first.                  *)

C4_MostSpecificAgent ==
    Parsed =>
        /\ \A i, j \in DOMAIN agents_ordered :
               i < j => len(agents_ordered[i]) >= len(agents_ordered[j])
        /\ {agents_ordered[i] : i \in DOMAIN agents_ordered} = DOMAIN rules
        /\ Len(agents_ordered) = Cardinality(DOMAIN rules)
        /\ pc = "answered" =>
               /\ matched_agent.tag = "None" <=>
                      \A a \in DOMAIN rules : ~match_pattern(a, user_agent)
               /\ matched_agent.tag = "Some" =>
                      /\ matched_agent.val \in DOMAIN rules
                      /\ match_pattern(matched_agent.val, user_agent)
                      /\ \A a \in DOMAIN rules :
                             match_pattern(a, user_agent) =>
                                 len(a) <= len(matched_agent.val)

\* "*" comes first in the text and matches, and the longer "kb*" governs.
C4_Witness ==
    /\ pc = "answered"
    /\ Len(doc) >= 1
    /\ doc[1].value = <<"*">>
    /\ <<"*">> \in DOMAIN rules
    /\ match_pattern(<<"*">>, user_agent)
    /\ matched_agent = Some(<<"k", "b", "*">>)

-----------------------------------------------------------------------------
(* C8: the decision is deterministic: parse(text) then is_allowed(          *)
(* user_agent, path) gives the same boolean and the same agent block in     *)
(* every execution, whatever order the rule map enumerates its keys in.     *)

C8_DecisionDeterministic ==
    pc = "answered" =>
        \A index \in agent_indexes(rules) :
            /\ find_matching_agent(index, user_agent) = matched_agent
            /\ is_allowed(rules, index, user_agent, path) = allowed

-----------------------------------------------------------------------------
(* C6: a text without a User-agent line records no Allow or Disallow        *)
(* directive: the rule map and the agent index are empty and every query    *)
(* is allowed.  An Allow or Disallow line before the first User-agent line  *)
(* is dropped.  Every Sitemap line with a value is collected, in text       *)
(* order, duplicates kept, wherever it stands.                              *)

\* C6: every Sitemap value is collected in text order; without a User-agent
\* line nothing is recorded and every query is allowed; a block holds as many
\* values as its agent governs lines, so a line no agent governs is dropped.
C6_NoAgentNoRules ==
    pc = "parsed" =>
        /\ sitemaps = SitemapValues(doc, Len(doc))
        /\ (\A i \in DOMAIN doc : Kind(doc[i]) # "user-agent") =>
               /\ DOMAIN rules = {}
               /\ agents_ordered = <<>>
               /\ \A ua \in {<<"K", "b">>, <<"x">>} :
                      \A p \in {<<"/">>, <<"/", "A", "b">>, <<"/", "x">>} :
                          is_allowed(rules, agents_ordered, ua, p)
        /\ \A a \in DOMAIN rules :
               /\ Len(rules[a].allow) = Len(Recorded(doc, Len(doc), a, "allow"))
               /\ Len(rules[a].disallow) =
                      Len(Recorded(doc, Len(doc), a, "disallow"))

\* An Allow line, then the same Sitemap line twice, and no User-agent line.
C6_Witness ==
    /\ pc = "parsed"
    /\ Len(doc) = 3
    /\ Kind(doc[1]) = "allow"
    /\ Kind(doc[2]) = "sitemap"
    /\ doc[3] = doc[2]
    /\ DOMAIN rules = {}
    /\ sitemaps = <<<<"s", "1">>, <<"s", "1">>>>

-----------------------------------------------------------------------------
(* C7: directive keywords are case-insensitive and values case-preserved:   *)
(* changing the letter case of directive keywords leaves what parse does    *)
(* unchanged, and every recorded agent-pattern, path-pattern and sitemap    *)
(* value is the value of a line of its kind, letter for letter.             *)

AsciiUpper ==
    [c \in {LowerCase[i] : i \in DOMAIN LowerCase} |->
        UpperCase[CHOOSE i \in DOMAIN LowerCase : LowerCase[i] = c]]

to_ascii_uppercase(c) == IF c \in DOMAIN AsciiUpper THEN AsciiUpper[c] ELSE c

C7_Recased(h, up) ==
    [i \in DOMAIN h |-> IF up THEN to_ascii_uppercase(h[i]) ELSE to_ascii_lowercase(h[i])]

C7_IsKeyword(h) == Folded(h) \in {KwUserAgent, KwAllow, KwDisallow, KwSitemap}

\* The texts that differ from d in the letter case of directive keywords: the
\* keywords of the lines T are upper-cased, or lower-cased.
C7_Variants(d) ==
    {[i \in DOMAIN d |-> IF i \in T /\ C7_IsKeyword(d[i].head)
                         THEN [d[i] EXCEPT !.head = C7_Recased(@, up)]
                         ELSE d[i]] : T \in SUBSET DOMAIN d, up \in BOOLEAN}

C7_Ending == SubSeq(file, Len(render(doc)) + 1, Len(file))

C7_Outcome ==
    IF pc = "panicked" THEN [panicked |-> TRUE]
    ELSE [panicked |-> FALSE, rules |-> rules, sitemaps |-> sitemaps]

C7_ValuesOf(d, kind) == {d[i].value : i \in {j \in DOMAIN d : Kind(d[j]) = kind}}

\* C7: every text that differs in keyword case only is parsed to the same
\* outcome, and the recorded values are line values as written.
C7_KeywordCaseIgnored ==
    pc \in {"parsed", "panicked"} =>
        /\ \A v \in C7_Variants(doc) :
               /\ parse(render(v) \o C7_Ending) = C7_Outcome
               /\ pc = "parsed" =>
                      agents_ordered \in agent_indexes(parse(render(v) \o C7_Ending).rules)
        /\ pc = "parsed" =>
               /\ DOMAIN rules \subseteq C7_ValuesOf(doc, "user-agent")
               /\ \A a \in DOMAIN rules :
                      /\ \A i \in DOMAIN rules[a].allow :
                             rules[a].allow[i] \in C7_ValuesOf(doc, "allow")
                      /\ \A i \in DOMAIN rules[a].disallow :
                             rules[a].disallow[i] \in C7_ValuesOf(doc, "disallow")
               /\ \A i \in DOMAIN sitemaps :
                      sitemaps[i] \in C7_ValuesOf(doc, "sitemap")

\* "User-agent: Kb", "Allow: /Ab", "DisALLow: /ab": three keywords in mixed
\* case, three values recorded as written.
C7_Witness ==
    /\ pc = "parsed"
    /\ Len(doc) = 3
    /\ doc[3].head = <<"D", "i", "s", "A", "L", "L", "o", "w", ":", " ">>
    /\ DOMAIN rules = {<<"K", "b">>}
    /\ rules[<<"K", "b">>].allow = <<<<"/", "A", "b">>>>
    /\ rules[<<"K", "b">>].disallow = <<<<"/", "a", "b">>>>

-----------------------------------------------------------------------------
(* C9: in every RobotsTxt parse returns, each agent's allow list and        *)
(* disallow list is in order of non-increasing pattern length, holds the    *)
(* values recorded for the agent and no others, and keeps patterns of equal *)
(* length in text order.                                                    *)

C9_StableSorted(seq, rec) ==
    /\ \A i, j \in DOMAIN seq : i < j => len(seq[i]) >= len(seq[j])
    /\ Len(seq) = Len(rec)
    /\ \A n \in {len(rec[i]) : i \in DOMAIN rec} : OfLen(seq, n) = OfLen(rec, n)

-----------------------------------------------------------------------------
(* C10: every recorded Allow or Disallow value is stored under the value of *)
(* the last User-agent line before it, whatever other lines stand between;  *)
(* a User-agent line that names a pattern again appends to the pattern's    *)
(* lists, and no earlier rule is lost.                                      *)

\* Two lists that hold the same values, each as often in one as in the other.
C10_SameValues(seq, rec) ==
    \A v \in {seq[i] : i \in DOMAIN seq} \cup {rec[i] : i \in DOMAIN rec} :
        Count(seq, v) = Count(rec, v)

\* C10: the blocks are those of the agents that govern a rule line, and each
\* list holds exactly the values of the lines its agent governs.
C10_CurrentAgentContext ==
    pc = "parsed" =>
        /\ DOMAIN rules = Governors(doc)
        /\ \A a \in DOMAIN rules :
               /\ C10_SameValues(rules[a].allow, Recorded(doc, Len(doc), a, "allow"))
               /\ C10_SameValues(rules[a].disallow,
                                 Recorded(doc, Len(doc), a, "disallow"))

\* "a" has a rule, "bb" takes over, then "a" is named again and gets a
\* second rule.
C10_Witness ==
    /\ pc = "parsed"
    /\ Len(doc) = 5
    /\ doc[1] = Ln(HdUserAgent, <<"a">>)
    /\ Kind(doc[2]) = "allow"
    /\ doc[3] = Ln(HdUserAgent, <<"b", "b">>)
    /\ doc[4] = doc[1]
    /\ Kind(doc[5]) = "disallow"
    /\ DOMAIN rules = {<<"a">>}
    /\ rules[<<"a">>] = [allow |-> <<<<"/", "a">>>>, disallow |-> <<<<"/", "b">>>>]

====
